---- MODULE Spec2Model ----
(***************************************************************************)
(* Model of multifit/multilinear.c: the SVD based linear least-squares     *)
(* solvers (unweighted, weighted, ridge, ridge2), the estimator and the    *)
(* residual computation, over a caller-owned workspace and caller-owned     *)
(* output buffers.                                                          *)
(*                                                                          *)
(* A double is modelled as an exact extended rational <<num, den>>:         *)
(*   den > 0   the finite value num/den, in lowest terms                    *)
(*   <<1,0>>   +inf      <<-1,0>>  -inf      <<0,0>>  NaN                   *)
(* Rounding and the sign of zero are not modelled.                          *)
(***************************************************************************)
EXTENDS Integers, Sequences, FiniteSets

\* ---------------------------------------------------------------------
\* Bounds of the model
\* ---------------------------------------------------------------------

\* rows of the workspace (number of observations n)
N == 3

\* columns of the workspace (number of parameters p)
P == 2

\* number of library calls in one behaviour
MaxCalls == 2

\* ---------------------------------------------------------------------
\* double arithmetic
\* ---------------------------------------------------------------------

Abs(a) == IF a < 0 THEN -a ELSE a

Sgn(a) == IF a < 0 THEN -1 ELSE IF a > 0 THEN 1 ELSE 0

RECURSIVE GCD(_, _)
GCD(a, b) == IF b = 0 THEN a ELSE GCD(b, a % b)

\* n/d with d > 0, divided through by g
Reduce(n, d, g) == <<n \div g, d \div g>>

Norm(n, d) ==
  IF d = 0 THEN <<Sgn(n), 0>>
  ELSE IF d < 0 THEN Reduce(-n, -d, GCD(Abs(n), -d))
  ELSE Reduce(n, d, GCD(Abs(n), d))

Rat(n) == <<n, 1>>

NaN == <<0, 0>>

Zero == <<0, 1>>

One == <<1, 1>>

IsNaN(a) == a[1] = 0 /\ a[2] = 0

IsFinite(a) == a[2] > 0

RNeg(a) == <<-a[1], a[2]>>

\* a + b for finite a, b, g the gcd of the denominators
AddOver(a, b, g) ==
  Norm(a[1] * (b[2] \div g) + b[1] * (a[2] \div g), (a[2] \div g) * b[2])

RAdd(a, b) ==
  IF a[2] = 0 /\ b[2] = 0 THEN (IF a[1] = b[1] THEN a ELSE NaN)
  ELSE IF a[2] = 0 \/ b[2] = 0 THEN Norm(a[1] * b[2] + b[1] * a[2], 0)
  ELSE AddOver(a, b, GCD(a[2], b[2]))

RSub(a, b) == RAdd(a, RNeg(b))

\* a * b for finite non-zero a, b, reduced crosswise by g1 and g2 first
MulOver(a, b, g1, g2) ==
  <<(a[1] \div g1) * (b[1] \div g2), (a[2] \div g2) * (b[2] \div g1)>>

RMul(a, b) ==
  IF a[2] = 0 \/ b[2] = 0 \/ a[1] = 0 \/ b[1] = 0
  THEN Norm(Sgn(a[1]) * Sgn(b[1]), Sgn(a[2]) * Sgn(b[2]))
  ELSE MulOver(a, b, GCD(Abs(a[1]), b[2]), GCD(Abs(b[1]), a[2]))

RInv(a) ==
  IF a[1] = 0 THEN (IF a[2] = 0 THEN NaN ELSE <<1, 0>>)
  ELSE IF a[1] < 0 THEN <<-a[2], -a[1]>>
  ELSE <<a[2], a[1]>>

RDiv(a, b) == RMul(a, RInv(b))

\* a <= b, false when either side is NaN
RLe(a, b) ==
  /\ ~IsNaN(a)
  /\ ~IsNaN(b)
  /\ IF a[2] = 0 /\ b[2] = 0 THEN a[1] <= b[1]
     ELSE a[1] * b[2] <= b[1] * a[2]

\* a < b, false when either side is NaN
RLt(a, b) == RLe(a, b) /\ a # b

RGt(a, b) == RLt(b, a)

RAbs(a) == <<Abs(a[1]), a[2]>>

Square(a) == RMul(a, a)

IsSquare(k) == \E r \in 0..k : r * r = k

ISqrt(k) == CHOOSE r \in 0..k : r * r = k

\* sqrt(): exact on squares of rationals, NaN below zero; any other root
\* is kept as the surd <<num, den, 2>> (written only to y_err, never read)
RSqrt(a) ==
  IF IsNaN(a) \/ a[1] < 0 THEN NaN
  ELSE IF a[2] = 0 THEN a
  ELSE IF IsSquare(a[1]) /\ IsSquare(a[2]) THEN <<ISqrt(a[1]), ISqrt(a[2])>>
  ELSE <<a[1], a[2], 2>>

\* ---------------------------------------------------------------------
\* gsl_vector / gsl_matrix: a vector is a sequence of doubles, a matrix a
\* sequence of rows
\* ---------------------------------------------------------------------

\* the sequence with the elements of f, each computed once and stored
Vec(f) == f \o <<>>

Size1(M) == Len(M)

Size2(M) == Len(M[1])

RECURSIVE SumTo(_, _)
SumTo(f, k) == IF k = 0 THEN Zero ELSE RAdd(SumTo(f, k - 1), f[k])

\* the sum f[1] + ... + f[Len(f)], accumulated from the left
VSum(f) == SumTo(f, Len(f))

\* the rows x cols matrix with the entries e[i][j]
Mat(rows, cols, e) == Vec([i \in 1..rows |-> Vec([j \in 1..cols |-> e[i][j]])])

\* gsl_blas_ddot
Dot(u, v) == VSum([i \in 1..Len(u) |-> RMul(u[i], v[i])])

Row(M, i) == M[i]

Col(M, j) == Vec([i \in 1..Size1(M) |-> M[i][j]])

\* gsl_vector_set_all / gsl_vector_set_zero
VConst(len, a) == Vec([i \in 1..len |-> a])

\* gsl_vector_div
VDiv(u, v) == Vec([i \in 1..Len(u) |-> RDiv(u[i], v[i])])

\* gsl_blas_dgemv(CblasNoTrans, 1.0, M, v, 0.0, .)
MatVec(M, v) == Vec([i \in 1..Size1(M) |-> Dot(Row(M, i), v)])

\* gsl_blas_dgemv(CblasTrans, 1.0, M, v, 0.0, .)
MatTVec(M, v) == Vec([j \in 1..Size2(M) |-> Dot(Col(M, j), v)])

\* ---------------------------------------------------------------------
\* External collaborators (linalg): the column balancer and the SVD
\* ---------------------------------------------------------------------

\* the scale factor of one column with absolute sum s: halve or double
\* until s lies in [1/2, 1]
RECURSIVE BalanceFactor(_, _)
BalanceFactor(s, f) ==
  IF RGt(s, One) THEN BalanceFactor(RDiv(s, Rat(2)), RMul(f, Rat(2)))
  ELSE IF RLt(s, <<1, 2>>) THEN BalanceFactor(RMul(s, Rat(2)), RDiv(f, Rat(2)))
  ELSE f

\* the factor of a column with absolute sum s: 1 when s is 0 or not finite
ColumnFactor(s) ==
  IF s = Zero \/ ~IsFinite(s) THEN One ELSE BalanceFactor(s, One)

\* A with column j divided by D[j]
DivideColumns(A, D) ==
  [A |-> Mat(Size1(A), Size2(A),
              [i \in 1..Size1(A) |-> [j \in 1..Size2(A) |-> RDiv(A[i][j], D[j])]]),
   D |-> D]

\* gsl_linalg_balance_columns(A, D): D[j] is a power of two (1 for a zero
\* column) and column j of A is divided by D[j]
balance_columns(A) ==
  DivideColumns(A, Vec([j \in 1..Size2(A) |->
                      ColumnFactor(VSum([i \in 1..Size1(A) |-> RAbs(A[i][j])]))]))

\* the matrices the SVD model factors exactly: pairwise orthogonal columns
\* whose norms are rational
SvdDomain(A) ==
  /\ \A j \in 1..Size2(A) : Len(RSqrt(Dot(Col(A, j), Col(A, j)))) = 2
  /\ \A j, k \in 1..Size2(A) : j # k => Dot(Col(A, j), Col(A, k)) = Zero

\* U, S and V from the column norms nrm, the place pos[j] of column j in the
\* descending order and its inverse src
SvdFactors(A, nrm, pos, src) ==
  [U |-> Mat(Size1(A), Size2(A), [i \in 1..Size1(A) |-> [k \in 1..Size2(A) |->
            IF nrm[src[k]] = Zero THEN Zero
            ELSE RDiv(A[i][src[k]], nrm[src[k]])]]),
   S |-> Vec([k \in 1..Size2(A) |-> nrm[src[k]]]),
   V |-> Mat(Size2(A), Size2(A), [j \in 1..Size2(A) |-> [k \in 1..Size2(A) |->
            IF pos[j] = k THEN One ELSE Zero]])]

SvdOrdered(A, nrm, pos) ==
  SvdFactors(A, nrm, pos,
             Vec([k \in 1..Size2(A) |-> CHOOSE j \in 1..Size2(A) : pos[j] = k]))

SvdByNorms(A, nrm) ==
  SvdOrdered(A, nrm, Vec([j \in 1..Size2(A) |->
     1 + Cardinality({k \in 1..Size2(A) :
           RGt(nrm[k], nrm[j]) \/ (nrm[k] = nrm[j] /\ k < j)})]))

\* gsl_linalg_SV_decomp_mod: A = U diag(S) V^T with S non-negative and in
\* descending order, V orthogonal (here the permutation that sorts the
\* columns of A by norm, ties by column index), U the normalised columns
\* (zero for a zero singular value)
SV_decomp_mod(A) ==
  SvdByNorms(A, Vec([j \in 1..Size2(A) |-> RSqrt(Dot(Col(A, j), Col(A, j)))]))

\* GSL_DBL_EPSILON (2^-52), here 2^-20: every ratio of singular values the
\* model produces is either 0 or far above both
GSL_DBL_EPSILON == <<1, 1048576>>

\* ---------------------------------------------------------------------
\* multifit_linear_svd
\* ---------------------------------------------------------------------

\* the frame of a running solver: the workspace and the caller's buffers as
\* written so far, the locals p_eff (rank) and r2, and the status returned
Frame(work, out) ==
  [status |-> "GSL_SUCCESS", work |-> work, out |-> out, rank |-> 0, r2 |-> Zero]

\* GSL_ERROR (reason, st): return st
Fail(st, work, out) == [Frame(work, out) EXCEPT !.status = st]

\* the matrix the pointer X designates: work->A itself when the caller
\* passed work->A
Deref(X, alias, A) == IF alias THEN A ELSE X

\* CopyX without the copy: the core factors what the workspace holds
CopyX_skipped(f, X, alias) == f

\* if (X != A) gsl_matrix_memcpy (A, X)
CopyX(f, X, alias) == IF alias THEN f ELSE [f EXCEPT !.work.A = X]

SetBalanced(f, bal) == [f EXCEPT !.work.A = bal.A, !.work.D = bal.D]

\* if (balance) gsl_linalg_balance_columns (A, D) else gsl_vector_set_all (D, 1.0)
Balance(f, balance) ==
  IF balance THEN SetBalanced(f, balance_columns(f.work.A))
  ELSE [f EXCEPT !.work.D = VConst(f.work.p, One)]

SetFactors(f, svd) == [f EXCEPT !.work.A = svd.U, !.work.Q = svd.V, !.work.S = svd.S]

\* gsl_linalg_SV_decomp_mod (A, QSI, Q, S, xt)
Decompose(f) == SetFactors(f, SV_decomp_mod(f.work.A))

\* xt = U^T y
Project(f, y) == [f EXCEPT !.work.xt = MatTVec(f.work.A, y)]

\* Alpha with the comparison made strict (sj < tol * s0)
Alpha_strict(S, j, tol, lambda_sq) ==
  IF RLt(S[j], RMul(tol, S[1])) THEN Zero
  ELSE RDiv(S[j], RAdd(RMul(S[j], S[j]), lambda_sq))

\* alpha of singular value j in the unweighted solver
Alpha(S, j, tol, lambda_sq) ==
  IF RLe(S[j], RMul(tol, S[1])) THEN Zero
  ELSE RDiv(S[j], RAdd(RMul(S[j], S[j]), lambda_sq))

\* PEff with the comparison of the loop made strict (sj < tol * s0)
RECURSIVE PEff_strict(_, _, _)
PEff_strict(S, tol, k) ==
  IF k = 0 THEN 0
  ELSE PEff_strict(S, tol, k - 1) + (IF RLt(S[k], RMul(tol, S[1])) THEN 0 ELSE 1)

\* p_eff after the first k rounds of the loop over the singular values
RECURSIVE PEff(_, _, _)
PEff(S, tol, k) ==
  IF k = 0 THEN 0
  ELSE PEff(S, tol, k - 1) + (IF RLe(S[k], RMul(tol, S[1])) THEN 0 ELSE 1)

\* gsl_matrix_memcpy (QSI, Q) and the scaling of column j by alpha[j]
ScaleQ(Q, alpha) ==
  Mat(Size1(Q), Size2(Q),
      [i \in 1..Size1(Q) |-> [j \in 1..Size2(Q) |-> RMul(Q[i][j], alpha[j])]])

\* QSI = Q diag(s_j / (s_j^2 + lambda^2)), p_eff counted on the way
ScaleQSI(f, tol, lambda_sq) ==
  [f EXCEPT !.work.QSI = ScaleQ(f.work.Q,
                Vec([j \in 1..f.work.p |-> Alpha(f.work.S, j, tol, lambda_sq)])),
            !.rank = PEff(f.work.S, tol, f.work.p)]

\* gsl_vector_set_zero (c); c = QSI xt; gsl_vector_div (c, D)
Coefficients(f, cn) ==
  [f EXCEPT !.out[cn] = VDiv(MatVec(f.work.QSI, f.work.xt), f.work.D)]

\* r2 = sum_i (y_i - row_i . c)^2 over the rows of the matrix read
ResidualSq(Xr, y, c) ==
  VSum([i \in 1..Size1(Xr) |-> Square(RSub(y[i], Dot(Row(Xr, i), c)))])

\* the residual loop reads the rows of X: of work->A as it is by now when
\* the caller passed work->A
Residual(f, X, alias, y, cn) ==
  [f EXCEPT !.r2 = ResidualSq(Deref(X, alias, f.work.A), y, f.out[cn])]

\* ridge = sum_i lambda_sq * c_i * c_i
RidgeTerm(lambda_sq, c) ==
  VSum([i \in 1..Len(c) |-> RMul(RMul(lambda_sq, c[i]), c[i])])

\* *chisq = r2 + ridge
Chisq(f, lambda_sq, cn) ==
  [f EXCEPT !.out.chisq = RAdd(f.r2, RidgeTerm(lambda_sq, f.out[cn]))]

\* cov[i][j] = s * s2 / (d_i * d_j), s the dot product of rows i, j of QSI
CovMatrix(QSI, D, s2) ==
  Mat(Size1(QSI), Size1(QSI), [i \in 1..Size1(QSI) |-> [j \in 1..Size1(QSI) |->
     RDiv(RMul(Dot(Row(QSI, i), Row(QSI, j)), s2), RMul(D[i], D[j]))]])

\* s2 = r2 / (n - p_eff) and the covariance matrix
Covariance(f, covn) ==
  [f EXCEPT !.out[covn] = CovMatrix(f.work.QSI, f.work.D,
                                    RDiv(f.r2, Rat(f.work.n - f.rank)))]

multifit_linear_svd(X, alias, y, tol, balance, lambda, cn, covn, work, out) ==
  IF Size1(Deref(X, alias, work.A)) # Len(y) THEN Fail("GSL_EBADLEN", work, out)
  ELSE IF Size2(Deref(X, alias, work.A)) # Len(out[cn])
       THEN Fail("GSL_EBADLEN", work, out)
  ELSE IF Size1(out[covn]) # Size2(out[covn]) THEN Fail("GSL_ENOTSQR", work, out)
  ELSE IF Len(out[cn]) # Size1(out[covn]) THEN Fail("GSL_EBADLEN", work, out)
  ELSE IF Size1(Deref(X, alias, work.A)) # work.n
          \/ Size2(Deref(X, alias, work.A)) # work.p
       THEN Fail("GSL_EBADLEN", work, out)
  ELSE IF RLe(tol, Zero) THEN Fail("GSL_EINVAL", work, out)
  ELSE Covariance(
         Chisq(
           Residual(
             Coefficients(
               ScaleQSI(
                 Project(
                   Decompose(Balance(CopyX(Frame(work, out), X, alias), balance)),
                   y),
                 tol, RMul(lambda, lambda)),
               cn),
             X, alias, y, cn),
           RMul(lambda, lambda), cn),
         covn)

\* ---------------------------------------------------------------------
\* The unweighted entry points
\* ---------------------------------------------------------------------

\* a solver whose rank is a local variable: the value is dropped
DropRank(res) == [res EXCEPT !.rank = 0]

\* a solver that was handed the caller's rank pointer: on success the core
\* stored p_eff through it
StoreRank(res) ==
  IF res.status = "GSL_SUCCESS" THEN [res EXCEPT !.out.rank = res.rank] ELSE res

gsl_multifit_linear(X, y, cn, covn, work, out) ==
  DropRank(multifit_linear_svd(X, FALSE, y, GSL_DBL_EPSILON, TRUE, Zero,
                               cn, covn, work, out))

gsl_multifit_linear_svd(X, y, tol, cn, covn, work, out) ==
  StoreRank(multifit_linear_svd(X, FALSE, y, tol, TRUE, Zero, cn, covn, work, out))

gsl_multifit_linear_usvd(X, y, tol, cn, covn, work, out) ==
  StoreRank(multifit_linear_svd(X, FALSE, y, tol, FALSE, Zero, cn, covn, work, out))

gsl_multifit_linear_ridge(lambda, X, y, cn, covn, work, out) ==
  DropRank(multifit_linear_svd(X, FALSE, y, GSL_DBL_EPSILON, FALSE, lambda,
                               cn, covn, work, out))

\* the number of columns the loop of ridge2 writes into work->A before it
\* returns or ends: all p, or those before the first zero entry of lambda
RECURSIVE ColumnsDone(_, _)
ColumnsDone(lambda, j) ==
  IF j > Len(lambda) THEN Len(lambda)
  ELSE IF lambda[j] = Zero THEN j - 1
  ELSE ColumnsDone(lambda, j + 1)

\* work->A after the loop: each column j <= done holds column j of X scaled
\* by 1.0 / lambda_j
ScaledColumns(X, lambda, A, done) ==
  Mat(Size1(A), Size2(A), [i \in 1..Size1(A) |-> [j \in 1..Size2(A) |->
     IF j <= done THEN RMul(X[i][j], RDiv(One, lambda[j])) ELSE A[i][j]]])

\* UnscaleC without the test of the status
UnscaleC_always(res, lambda, cn) == [res EXCEPT !.out[cn] = VDiv(res.out[cn], lambda)]

\* UnscaleC without the division
UnscaleC_never(res, lambda, cn) == res

\* if (status == GSL_SUCCESS) gsl_vector_div (c, lambda)
UnscaleC(res, lambda, cn) ==
  IF res.status = "GSL_SUCCESS"
  THEN [res EXCEPT !.out[cn] = VDiv(res.out[cn], lambda)]
  ELSE res

\* the loop over the columns, then the core on work->A with lambda = 1
Ridge2Columns(lambda, y, cn, covn, work, out, done) ==
  IF done < Len(lambda) THEN Fail("GSL_EDOM", work, out)
  ELSE UnscaleC(multifit_linear_svd(work.A, TRUE, y, GSL_DBL_EPSILON, FALSE,
                                    One, cn, covn, work, out),
                lambda, cn)

gsl_multifit_linear_ridge2(lambda, X, y, cn, covn, work, out) ==
  IF Size2(X) # Len(lambda) \/ Len(lambda) # Len(out[cn])
  THEN Fail("GSL_EBADLEN", work, out)
  ELSE IF Size1(X) # work.n \/ Size2(X) # work.p
  THEN Fail("GSL_EBADLEN", work, out)
  ELSE DropRank(Ridge2Columns(lambda, y, cn, covn,
         [work EXCEPT !.A = ScaledColumns(X, lambda, work.A, ColumnsDone(lambda, 1))],
         out, ColumnsDone(lambda, 1)))

\* ---------------------------------------------------------------------
\* multifit_wlinear_svd and the weighted entry points
\* ---------------------------------------------------------------------

\* if (wi < 0) wi = 0
ClampW(wi) == IF RLt(wi, Zero) THEN Zero ELSE wi

\* A = sqrt(w) X: gsl_matrix_memcpy (A, X), then row i scaled by sqrt(wi)
ScaleRows(f, X, w) ==
  [f EXCEPT !.work.A = Mat(Size1(X), Size2(X),
                          [i \in 1..Size1(X) |-> [j \in 1..Size2(X) |->
                             RMul(X[i][j], RSqrt(ClampW(w[i])))]])]

\* t = sqrt(w) y
WeightY(f, w, y) ==
  [f EXCEPT !.work.t = Vec([i \in 1..Len(y) |-> RMul(RSqrt(ClampW(w[i])), y[i])])]

\* xt = U^T t
ProjectT(f) == [f EXCEPT !.work.xt = MatTVec(f.work.A, f.work.t)]

\* AlphaW with the factor of the unweighted core at lambda = 1
AlphaW_damped(S, j, tol) ==
  IF RLe(S[j], RMul(tol, S[1])) THEN Zero
  ELSE RDiv(S[j], RAdd(RMul(S[j], S[j]), One))

\* alpha of singular value j in the weighted solver
AlphaW(S, j, tol) ==
  IF RLe(S[j], RMul(tol, S[1])) THEN Zero ELSE RDiv(One, S[j])

\* QSI = Q S^-1, p_eff counted on the way
ScaleQSIW(f, tol) ==
  [f EXCEPT !.work.QSI = ScaleQ(f.work.Q,
                Vec([j \in 1..f.work.p |-> AlphaW(f.work.S, j, tol)])),
            !.rank = PEff(f.work.S, tol, f.work.p)]

\* the weight that multiplies ri * ri in the residual sum
ResidualWeight(wi) == wi

\* r2 = sum_i wi * ri * ri; *chisq = r2
ChisqW(f, X, w, y, cn) ==
  [f EXCEPT !.out.chisq =
     VSum([i \in 1..Size1(X) |->
        RMul(ResidualWeight(w[i]), Square(RSub(y[i], Dot(Row(X, i), f.out[cn]))))])]

\* cov[i][j] = s / (d_i * d_j)
CovarianceW(f, covn) ==
  [f EXCEPT !.out[covn] =
     Mat(f.work.p, f.work.p, [i \in 1..f.work.p |-> [j \in 1..f.work.p |->
        RDiv(Dot(Row(f.work.QSI, i), Row(f.work.QSI, j)),
             RMul(f.work.D[i], f.work.D[j]))]])]

multifit_wlinear_svd(X, w, y, tol, balance, cn, covn, work, out) ==
  IF Size1(X) # Len(y) THEN Fail("GSL_EBADLEN", work, out)
  ELSE IF Size2(X) # Len(out[cn]) THEN Fail("GSL_EBADLEN", work, out)
  ELSE IF Len(w) # Len(y) THEN Fail("GSL_EBADLEN", work, out)
  ELSE IF Size1(out[covn]) # Size2(out[covn]) THEN Fail("GSL_ENOTSQR", work, out)
  ELSE IF Len(out[cn]) # Size1(out[covn]) THEN Fail("GSL_EBADLEN", work, out)
  ELSE IF Size1(X) # work.n \/ Size2(X) # work.p THEN Fail("GSL_EBADLEN", work, out)
  ELSE CovarianceW(
         ChisqW(
           Coefficients(
             ScaleQSIW(
               ProjectT(
                 WeightY(
                   Decompose(Balance(ScaleRows(Frame(work, out), X, w), balance)),
                   w, y)),
               tol),
             cn),
           X, w, y, cn),
         covn)

gsl_multifit_wlinear(X, w, y, cn, covn, work, out) ==
  DropRank(multifit_wlinear_svd(X, w, y, GSL_DBL_EPSILON, TRUE, cn, covn, work, out))

gsl_multifit_wlinear_svd(X, w, y, tol, cn, covn, work, out) ==
  StoreRank(multifit_wlinear_svd(X, w, y, tol, TRUE, cn, covn, work, out))

gsl_multifit_wlinear_usvd(X, w, y, tol, cn, covn, work, out) ==
  StoreRank(multifit_wlinear_svd(X, w, y, tol, FALSE, cn, covn, work, out))

\* ---------------------------------------------------------------------
\* gsl_multifit_linear_est and gsl_multifit_linear_residuals
\* ---------------------------------------------------------------------

\* EstCovEntry reading the transposed entry
EstCovEntry_transposed(cov, i, j) == cov[j][i]

\* the element of cov the inner loop (j < i) of the estimator reads
EstCovEntry(cov, i, j) == cov[i][j]

\* var = sum_i ( xi*xi*cov[i][i] + sum_{j<i} 2*xi*xj*cov(i, j) )
EstVariance(x, cov) ==
  VSum([i \in 1..Len(x) |->
     RAdd(RMul(RMul(x[i], x[i]), cov[i][i]),
          SumTo([j \in 1..Len(x) |->
                   RMul(RMul(RMul(Rat(2), x[i]), x[j]), EstCovEntry(cov, i, j))],
                i - 1))])

gsl_multifit_linear_est(x, c, cov, work, out) ==
  IF Len(x) # Len(c) THEN Fail("GSL_EBADLEN", work, out)
  ELSE IF Size1(cov) # Size2(cov) THEN Fail("GSL_ENOTSQR", work, out)
  ELSE IF Len(c) # Size1(cov) THEN Fail("GSL_EBADLEN", work, out)
  ELSE [Frame(work, out) EXCEPT !.out.y = Dot(x, c),
                                !.out.y_err = RSqrt(EstVariance(x, cov))]

gsl_multifit_linear_residuals(X, y, c, rn, work, out) ==
  IF Size1(X) # Len(y) THEN Fail("GSL_EBADLEN", work, out)
  ELSE IF Size2(X) # Len(c) THEN Fail("GSL_EBADLEN", work, out)
  ELSE IF Len(y) # Len(out[rn]) THEN Fail("GSL_EBADLEN", work, out)
  ELSE [Frame(work, out) EXCEPT
          !.out[rn] = Vec([i \in 1..Len(y) |-> RSub(y[i], Dot(Row(X, i), c))])]

\* ---------------------------------------------------------------------
\* State
\* ---------------------------------------------------------------------

VARIABLES
  work,    \* the gsl_multifit_linear_workspace: n, p, A, Q, QSI, S, D, xt, t
  out,     \* the caller's output buffers
  call,    \* the arguments of the latest call
  status,  \* the status the latest call returned
  ncalls   \* the number of calls made

vars == <<work, out, call, status, ncalls>>

VFill(len, a) == Vec([i \in 1..len |-> a])

MFill(rows, cols, a) == Mat(rows, cols, [i \in 1..rows |-> [j \in 1..cols |-> a]])

\* gsl_multifit_linear_alloc (n, p)
Workspace(n, p, a) ==
  [n |-> n, p |-> p, A |-> MFill(n, p, a), Q |-> MFill(p, p, a),
   QSI |-> MFill(p, p, a), S |-> VFill(p, a), D |-> VFill(p, a),
   xt |-> VFill(p, a), t |-> VFill(n, a)]

\* the value the caller's buffers hold before the first call
Poison == Rat(7)

\* the caller's buffers: rank, chisq, y, y_err, the vectors c and r and the
\* matrix cov of the right shape, and wrongly shaped ones it may pass instead
CallerBuffers ==
  [rank |-> 7, chisq |-> Poison, y |-> Poison, y_err |-> Poison,
   c |-> VFill(P, Poison), c_long |-> VFill(P + 1, Poison),
   cov |-> MFill(P, P, Poison), cov_rect |-> MFill(P, P + 1, Poison),
   cov_big |-> MFill(P + 1, P + 1, Poison),
   r |-> VFill(N, Poison), r_long |-> VFill(N + 1, Poison)]

NoCall ==
  [op |-> "none", X |-> <<>>, y |-> <<>>, w |-> <<>>, tol |-> Zero,
   lambda |-> Zero, lvec |-> <<>>, cn |-> "c", covn |-> "cov",
   x |-> <<>>, c |-> <<>>, cov |-> <<>>, rn |-> "r"]

Init ==
  /\ work = Workspace(N, P, Zero)
  /\ out = CallerBuffers
  /\ call = NoCall
  /\ status = "none"
  /\ ncalls = 0

\* ---------------------------------------------------------------------
\* The inputs the caller draws from
\* ---------------------------------------------------------------------

\* an n x p design matrix with one non-zero entry per column: column j holds
\* v[j] in row j + sh (cyclically)
Place(n, p, v, sh) ==
  Mat(n, p, [i \in 1..n |-> [j \in 1..p |->
     IF i = ((j - 1 + sh) % n) + 1 THEN Rat(v[j]) ELSE Zero]])

XAsc == Place(N, P, [j \in 1..P |-> j], 0)

XFiveThree == Place(N, P, [j \in 1..P |-> IF j = 1 THEN 5 ELSE 3], 0)

XDeficient == Place(N, P, [j \in 1..P |-> IF j = 1 THEN 2 ELSE 0], 1)

XZero == MFill(N, P, Zero)

XShift == Place(N, P, [j \in 1..P |-> IF j = 1 THEN -2 ELSE 4], 1)

XTall == MFill(N + 1, P, One)

XGood == {XAsc, XFiveThree, XDeficient, XZero, XShift}

YOnes == VFill(N, One)

YRamp == Vec([i \in 1..N |-> Rat(i - 2)])

YLong == VFill(N + 1, One)

YGood == {YOnes, YRamp}

WOnes == VFill(N, One)

WNines == VFill(N, Rat(9))

WNeg == Vec([i \in 1..N |-> IF i = 1 THEN Rat(-1) ELSE One])

WMixed == Vec([i \in 1..N |-> IF i = 1 THEN Rat(4) ELSE IF i = 2 THEN One ELSE Zero])

WLong == VFill(N + 1, One)

WNonPos == Vec([i \in 1..N |-> IF i = 1 THEN Zero ELSE Rat(-1)])

WGood == {WOnes, WNines, WNeg, WMixed, WNonPos}

TolGood == {GSL_DBL_EPSILON, <<1, 2>>, <<7, 10>>, One, Rat(2)}

TolBad == {Zero, Rat(-1)}

LambdaGood == {Zero, One, Rat(2), Rat(-2)}

LOnes == VFill(P, One)

LTwos == VFill(P, Rat(2))

LMinus == VFill(P, Rat(-2))

LRamp == Vec([j \in 1..P |-> Rat(j)])

LZeroFirst == Vec([j \in 1..P |-> IF j = 1 THEN Zero ELSE One])

LZeroLast == Vec([j \in 1..P |-> IF j = P THEN Zero ELSE Rat(2)])

LLong == VFill(P + 1, One)

LGood == {LOnes, LTwos, LMinus, LRamp}

GoodBufs == {<<"c", "cov">>}

BadBufs == {<<"c_long", "cov">>, <<"c", "cov_rect">>, <<"c", "cov_big">>}

\* the calls of solver op with every combination of the given arguments
Calls(op, XS, YS, WS, TS, LS, LVS, BS) ==
  { [NoCall EXCEPT !.op = op, !.X = X, !.y = y, !.w = w, !.tol = tol,
                   !.lambda = lambda, !.lvec = lvec, !.cn = b[1], !.covn = b[2]] :
      X \in XS, y \in YS, w \in WS, tol \in TS, lambda \in LS, lvec \in LVS, b \in BS }

\* calls of solver op that break one shape rule each
ShapeFaults(op) ==
  Calls(op, {XAsc}, {YLong}, {WOnes}, {<<1, 2>>}, {One}, {LOnes}, GoodBufs)
  \cup Calls(op, {XTall}, {YLong}, {WLong}, {<<1, 2>>}, {One}, {LOnes}, GoodBufs)
  \cup Calls(op, {XAsc}, {YOnes}, {WOnes}, {<<1, 2>>}, {One}, {LOnes}, BadBufs)

EstCalls(XS, CS, CVS) ==
  { [NoCall EXCEPT !.op = "est", !.x = x, !.c = c, !.cov = cov] :
      x \in XS, c \in CS, cov \in CVS }

ResidualsCalls(XS, YS, CS, RS) ==
  { [NoCall EXCEPT !.op = "residuals", !.X = X, !.y = y, !.c = c, !.rn = rn] :
      X \in XS, y \in YS, c \in CS, rn \in RS }

CRamp == Vec([j \in 1..P |-> Rat(j)])

CHalf == Vec([j \in 1..P |-> <<1, 2>>])

CLong == VFill(P + 1, One)

XsOnes == VFill(P, One)

XsAlt == Vec([j \in 1..P |-> IF j % 2 = 1 THEN Rat(3) ELSE Rat(-1)])

XsLong == VFill(P + 1, One)

CovIdent == Mat(P, P, [i \in 1..P |-> [j \in 1..P |-> IF i = j THEN One ELSE Zero]])

CovSym == Mat(P, P, [i \in 1..P |-> [j \in 1..P |-> Rat(IF i = j THEN 4 ELSE 1)]])

CovLower == Mat(P, P, [i \in 1..P |-> [j \in 1..P |-> Rat(IF i = j THEN 2 ELSE IF j < i THEN 1 ELSE 0)]])

CovUpper == Mat(P, P, [i \in 1..P |-> [j \in 1..P |-> Rat(IF i = j THEN 2 ELSE IF j > i THEN 3 ELSE 0)]])

\* every call a behaviour of SpecCall may make
RichCalls ==
  Calls("linear", XGood, YGood, {<<>>}, {Zero}, {Zero}, {<<>>}, GoodBufs)
  \cup Calls("linear_svd", XGood, YGood, {<<>>}, TolGood \cup TolBad, {Zero}, {<<>>}, GoodBufs)
  \cup Calls("linear_usvd", XGood, YGood, {<<>>}, TolGood \cup TolBad, {Zero}, {<<>>}, GoodBufs)
  \cup Calls("ridge", XGood, YGood, {<<>>}, {Zero}, LambdaGood, {<<>>}, GoodBufs)
  \cup Calls("ridge2", XGood, YGood, {<<>>}, {Zero}, {Zero},
             LGood \cup {LZeroFirst, LZeroLast, LLong}, GoodBufs)
  \cup Calls("wlinear", XGood, YGood, WGood \cup {WLong}, {Zero}, {Zero}, {<<>>}, GoodBufs)
  \cup Calls("wlinear_svd", XGood, YGood, WGood \cup {WLong}, TolGood \cup TolBad,
             {Zero}, {<<>>}, GoodBufs)
  \cup Calls("wlinear_usvd", XGood, YGood, WGood \cup {WLong}, TolGood \cup TolBad,
             {Zero}, {<<>>}, GoodBufs)
  \cup UNION { ShapeFaults(op) : op \in {"linear", "linear_svd", "linear_usvd", "ridge",
                 "ridge2", "wlinear", "wlinear_svd", "wlinear_usvd"} }
  \cup EstCalls({XsOnes, XsAlt, XsLong}, {CRamp, CHalf, CLong},
                {CovIdent, CovSym, CovLower, CovUpper,
                 MFill(P, P + 1, One), MFill(P + 1, P + 1, One)})
  \cup ResidualsCalls({XAsc, XShift, XTall}, {YOnes, YRamp, YLong},
                      {CRamp, CHalf, CLong}, {"r", "r_long"})

\* the calls a behaviour of Spec may make: every kind of failure of each
\* core and one successful call of every entry point
SmallCalls ==
  Calls("linear", {XAsc}, {YOnes, YLong}, {<<>>}, {Zero}, {Zero}, {<<>>}, GoodBufs)
  \cup Calls("linear_svd", {XDeficient}, {YOnes}, {<<>>}, {<<1, 2>>, Zero},
             {Zero}, {<<>>}, GoodBufs)
  \cup ShapeFaults("linear_svd")
  \cup Calls("linear_usvd", {XShift}, {YRamp}, {<<>>}, {<<1, 2>>, Rat(-1)},
             {Zero}, {<<>>}, GoodBufs)
  \cup Calls("ridge", {XAsc}, {YOnes}, {<<>>}, {Zero}, {Rat(2)}, {<<>>},
             GoodBufs \cup {<<"c", "cov_rect">>})
  \cup Calls("ridge2", {XAsc}, {YOnes}, {<<>>}, {Zero}, {Zero},
             {LRamp, LZeroFirst, LZeroLast, LLong}, GoodBufs)
  \cup Calls("ridge2", {XAsc}, {YLong}, {<<>>}, {Zero}, {Zero}, {LRamp}, GoodBufs)
  \cup Calls("wlinear", {XAsc}, {YRamp}, {WMixed, WLong}, {Zero}, {Zero}, {<<>>}, GoodBufs)
  \cup Calls("wlinear_svd", {XFiveThree}, {YOnes}, {WNeg}, {<<7, 10>>},
             {Zero}, {<<>>}, GoodBufs)
  \cup ShapeFaults("wlinear_svd")
  \cup Calls("wlinear_usvd", {XAsc}, {YOnes}, {WOnes}, {<<1, 2>>},
             {Zero}, {<<>>}, GoodBufs \cup {<<"c_long", "cov">>})
  \cup EstCalls({XsAlt}, {CRamp}, {CovSym, MFill(P, P + 1, One)})
  \cup EstCalls({XsLong}, {CRamp}, {CovSym})
  \cup ResidualsCalls({XAsc}, {YRamp}, {CRamp}, {"r", "r_long"})
  \cup ResidualsCalls({XAsc}, {YLong}, {CRamp}, {"r"})

\* ---------------------------------------------------------------------
\* Actions: one per entry point
\* ---------------------------------------------------------------------

\* the call a returns res
Return(a, res) ==
  /\ work' = res.work
  /\ out' = res.out
  /\ status' = res.status
  /\ call' = a
  /\ ncalls' = ncalls + 1

Linear(CS, max) ==
  /\ ncalls < max
  /\ \E a \in CS : a.op = "linear"
       /\ Return(a, gsl_multifit_linear(a.X, a.y, a.cn, a.covn, work, out))

LinearSvd(CS, max) ==
  /\ ncalls < max
  /\ \E a \in CS : a.op = "linear_svd"
       /\ Return(a, gsl_multifit_linear_svd(a.X, a.y, a.tol, a.cn, a.covn, work, out))

LinearUsvd(CS, max) ==
  /\ ncalls < max
  /\ \E a \in CS : a.op = "linear_usvd"
       /\ Return(a, gsl_multifit_linear_usvd(a.X, a.y, a.tol, a.cn, a.covn, work, out))

Ridge(CS, max) ==
  /\ ncalls < max
  /\ \E a \in CS : a.op = "ridge"
       /\ Return(a, gsl_multifit_linear_ridge(a.lambda, a.X, a.y, a.cn, a.covn, work, out))

Ridge2(CS, max) ==
  /\ ncalls < max
  /\ \E a \in CS : a.op = "ridge2"
       /\ Return(a, gsl_multifit_linear_ridge2(a.lvec, a.X, a.y, a.cn, a.covn, work, out))

Wlinear(CS, max) ==
  /\ ncalls < max
  /\ \E a \in CS : a.op = "wlinear"
       /\ Return(a, gsl_multifit_wlinear(a.X, a.w, a.y, a.cn, a.covn, work, out))

WlinearSvd(CS, max) ==
  /\ ncalls < max
  /\ \E a \in CS : a.op = "wlinear_svd"
       /\ Return(a, gsl_multifit_wlinear_svd(a.X, a.w, a.y, a.tol, a.cn, a.covn, work, out))

WlinearUsvd(CS, max) ==
  /\ ncalls < max
  /\ \E a \in CS : a.op = "wlinear_usvd"
       /\ Return(a, gsl_multifit_wlinear_usvd(a.X, a.w, a.y, a.tol, a.cn, a.covn, work, out))

Est(CS, max) ==
  /\ ncalls < max
  /\ \E a \in CS : a.op = "est"
       /\ Return(a, gsl_multifit_linear_est(a.x, a.c, a.cov, work, out))

Residuals(CS, max) ==
  /\ ncalls < max
  /\ \E a \in CS : a.op = "residuals"
       /\ Return(a, gsl_multifit_linear_residuals(a.X, a.y, a.c, a.rn, work, out))

Next ==
  \/ Linear(SmallCalls, MaxCalls)
  \/ LinearSvd(SmallCalls, MaxCalls)
  \/ LinearUsvd(SmallCalls, MaxCalls)
  \/ Ridge(SmallCalls, MaxCalls)
  \/ Ridge2(SmallCalls, MaxCalls)
  \/ Wlinear(SmallCalls, MaxCalls)
  \/ WlinearSvd(SmallCalls, MaxCalls)
  \/ WlinearUsvd(SmallCalls, MaxCalls)
  \/ Est(SmallCalls, MaxCalls)
  \/ Residuals(SmallCalls, MaxCalls)

\* sequences of calls on one workspace
Spec == Init /\ [][Next]_vars

NextCall ==
  \/ Linear(RichCalls, 1)
  \/ LinearSvd(RichCalls, 1)
  \/ LinearUsvd(RichCalls, 1)
  \/ Ridge(RichCalls, 1)
  \/ Ridge2(RichCalls, 1)
  \/ Wlinear(RichCalls, 1)
  \/ WlinearSvd(RichCalls, 1)
  \/ WlinearUsvd(RichCalls, 1)
  \/ Est(RichCalls, 1)
  \/ Residuals(RichCalls, 1)

\* one call with arguments from the larger sets
SpecCall == Init /\ [][NextCall]_vars

\* ---------------------------------------------------------------------
\* Vocabulary of the properties
\* ---------------------------------------------------------------------

UnweightedOps == {"linear", "linear_svd", "linear_usvd", "ridge", "ridge2"}

WeightedOps == {"wlinear", "wlinear_svd", "wlinear_usvd"}

TolOps == {"linear_svd", "linear_usvd", "wlinear_svd", "wlinear_usvd"}

Succeeded == status = "GSL_SUCCESS"

Failed == status \notin {"GSL_SUCCESS", "none"}

\* the workspace and the buffers as they are before the first call
FreshWork == Workspace(N, P, Zero)

\* what the call a returns on the workspace w and the buffers o
Apply(a, w, o) ==
  CASE a.op = "linear" -> gsl_multifit_linear(a.X, a.y, a.cn, a.covn, w, o)
    [] a.op = "linear_svd" -> gsl_multifit_linear_svd(a.X, a.y, a.tol, a.cn, a.covn, w, o)
    [] a.op = "linear_usvd" -> gsl_multifit_linear_usvd(a.X, a.y, a.tol, a.cn, a.covn, w, o)
    [] a.op = "ridge" -> gsl_multifit_linear_ridge(a.lambda, a.X, a.y, a.cn, a.covn, w, o)
    [] a.op = "ridge2" -> gsl_multifit_linear_ridge2(a.lvec, a.X, a.y, a.cn, a.covn, w, o)
    [] a.op = "wlinear" -> gsl_multifit_wlinear(a.X, a.w, a.y, a.cn, a.covn, w, o)
    [] a.op = "wlinear_svd" ->
         gsl_multifit_wlinear_svd(a.X, a.w, a.y, a.tol, a.cn, a.covn, w, o)
    [] a.op = "wlinear_usvd" ->
         gsl_multifit_wlinear_usvd(a.X, a.w, a.y, a.tol, a.cn, a.covn, w, o)
    [] a.op = "est" -> gsl_multifit_linear_est(a.x, a.c, a.cov, w, o)
    [] a.op = "residuals" -> gsl_multifit_linear_residuals(a.X, a.y, a.c, a.rn, w, o)

\* the solver call a passes buffers of the shapes the workspace was made for
WellShaped(a) ==
  /\ Size1(a.X) = N /\ Size2(a.X) = P /\ Len(a.y) = N
  /\ a.cn = "c" /\ a.covn = "cov"
  /\ a.op \in WeightedOps => Len(a.w) = N
  /\ a.op = "ridge2" => Len(a.lvec) = P

\* ---------------------------------------------------------------------
\* C1. Whenever a call returns a status other than success, every output
\* buffer of the caller (rank, c, cov, chisq, y, y_err, r, of any shape)
\* holds what it held before the call.
\* ---------------------------------------------------------------------
C1_FailureLeavesOutputs == [][status' # "GSL_SUCCESS" => out' = out]_vars

\* a failed call after a fit that filled c, cov and chisq
C1_Witness ==
  /\ ncalls = 2
  /\ Failed
  /\ out.c # VFill(P, Poison)
  /\ out.chisq # Poison

\* ---------------------------------------------------------------------
\* C2. Every entry point that takes a tolerance, weighted or unweighted,
\* called with well shaped arguments and tol <= 0, returns GSL_EINVAL and
\* leaves the outputs and the workspace as they were (here: as Init left
\* them, the call being the first).
\* ---------------------------------------------------------------------
C2_NonPositiveTolRejected ==
  (call.op \in TolOps /\ WellShaped(call) /\ RLe(call.tol, Zero))
    => (status = "GSL_EINVAL" /\ out = CallerBuffers /\ work = FreshWork)

\* ---------------------------------------------------------------------
\* C3. A failing ridge2 call returns with every workspace buffer, A
\* included, as it was at entry.
\* ---------------------------------------------------------------------
C3_Ridge2FailureLeavesWorkspace ==
  [][(call'.op = "ridge2" /\ status' # "GSL_SUCCESS") => work' = work]_vars

\* ---------------------------------------------------------------------
\* C4. After a successful unweighted solve (direct, ridge or ridge2) chisq
\* is the residual sum of squares of the fitted c against the design
\* matrix, plus the penalty: lambda^2 sum c_i^2 for ridge, and for ridge2
\* sum (lambda_i c_i)^2, the design matrix X diag(lambda)^-1 applied to
\* lambda c being X c.
\* ---------------------------------------------------------------------
C4_Penalty(a, c) ==
  IF a.op = "ridge" THEN RidgeTerm(RMul(a.lambda, a.lambda), c)
  ELSE IF a.op = "ridge2"
  THEN VSum([j \in 1..Len(c) |-> Square(RMul(a.lvec[j], c[j]))])
  ELSE Zero

\* C4: the chisq of a successful unweighted solve is the residual sum of
\* squares against the design matrix plus the penalty
C4_ChisqFromDesignMatrix ==
  (Succeeded /\ call.op \in UnweightedOps)
    => out.chisq = RAdd(ResidualSq(call.X, call.y, out.c), C4_Penalty(call, out.c))

\* ---------------------------------------------------------------------
\* C5. A successful weighted solve with weights w leaves the outputs
\* (rank, c, cov, chisq) that the same solve leaves with every negative
\* weight replaced by zero.
\* ---------------------------------------------------------------------
C5_Clamped(w) == Vec([i \in 1..Len(w) |-> IF RLt(w[i], Zero) THEN Zero ELSE w[i]])

\* C5: the outputs of a weighted solve are those of the solve with the
\* negative weights replaced by zero
C5_NegativeWeightAsZero ==
  (Succeeded /\ call.op \in WeightedOps)
    => out = Apply([call EXCEPT !.w = C5_Clamped(call.w)], FreshWork, CallerBuffers).out

\* ---------------------------------------------------------------------
\* C6. After a successful solve that reports its rank, with tol > 0, the
\* rank is the number of singular values s_j with s_j > tol * s_0, the
\* singular values lie in descending order and are not negative, and
\* 0 <= rank <= min(n, p).
\* ---------------------------------------------------------------------
C6_Exceeding == {j \in 1..P : RGt(work.S[j], RMul(call.tol, work.S[1]))}

C6_Min(a, b) == IF a < b THEN a ELSE b

\* C6: the reported rank counts the singular values above tol * s_0 and
\* lies in 0..min(n, p)
C6_RankCountsSingularValues ==
  (Succeeded /\ call.op \in TolOps /\ RGt(call.tol, Zero))
    => /\ \A j \in 1..P : RLe(Zero, work.S[j])
       /\ \A j \in 1..(P - 1) : RLe(work.S[j + 1], work.S[j])
       /\ out.rank = Cardinality(C6_Exceeding)
       /\ 0 <= out.rank /\ out.rank <= C6_Min(N, P)

\* a solve in which some nonzero singular value equals tol * s_0 exactly
C6_Witness ==
  /\ Succeeded /\ call.op \in TolOps /\ RGt(call.tol, Zero)
  /\ \E j \in 1..P : RGt(work.S[j], Zero) /\ work.S[j] = RMul(call.tol, work.S[1])
  /\ out.rank < P

\* ---------------------------------------------------------------------
\* C7. A successful ridge2 solve whose penalty vector is constant,
\* (lambda, ..., lambda) with lambda # 0, leaves in c the coefficients that
\* the scalar ridge solve with lambda leaves on the same X and y.
\* ---------------------------------------------------------------------
C7_Constant(l) == Len(l) > 0 /\ \A j \in 1..Len(l) : l[j] = l[1]

C7_Ridge(a) == [a EXCEPT !.op = "ridge", !.lambda = a.lvec[1]]

\* C7: ridge2 with a constant penalty vector leaves the c of ridge
C7_Ridge2MatchesRidge ==
  (Succeeded /\ call.op = "ridge2" /\ C7_Constant(call.lvec))
    => out.c = Apply(C7_Ridge(call), FreshWork, CallerBuffers).out.c

\* a constant penalty other than 1 and -1, and a fit that is not zero
C7_Witness ==
  /\ Succeeded /\ call.op = "ridge2" /\ C7_Constant(call.lvec)
  /\ RAbs(call.lvec[1]) # One
  /\ \A j \in 1..P : out.c[j] # Zero

\* ---------------------------------------------------------------------
\* C8. A successful weighted solve with balancing (wlinear, wlinear_svd)
\* whose weights all equal one positive constant leaves the c, and reports
\* the rank, of the unweighted solve with balancing and lambda = 0
\* (linear, linear_svd) on the same X, y and tol.
\* ---------------------------------------------------------------------
C8_Uniform(w) == Len(w) > 0 /\ RGt(w[1], Zero) /\ \A i \in 1..Len(w) : w[i] = w[1]

C8_Unweighted(a) ==
  [a EXCEPT !.op = IF a.op = "wlinear" THEN "linear" ELSE "linear_svd"]

\* the tolerance the solve of a works with
C8_Tol(a) == IF a.op = "wlinear" THEN GSL_DBL_EPSILON ELSE a.tol

C8_Case ==
  /\ Succeeded /\ call.op \in {"wlinear", "wlinear_svd"}
  /\ C8_Uniform(call.w) /\ RGt(C8_Tol(call), Zero)

C8_Agree(res) ==
  /\ res.status = "GSL_SUCCESS"
  /\ out.c = res.out.c
  /\ call.op = "wlinear_svd" => out.rank = res.out.rank

\* C8: uniform weights give the c and the rank of the unweighted solve
C8_WeightedMatchesUnweighted ==
  C8_Case => C8_Agree(Apply(C8_Unweighted(call), FreshWork, CallerBuffers))

\* C8 as amended: the two solves leave the same c, and report the same
\* rank, whenever neither discards a singular value (each keeps all p).
C8_KeepsAll(S, tol) == PEff(S, tol, P) = P

C8_AgreeWhenFull(res) ==
  /\ res.status = "GSL_SUCCESS"
  /\ (C8_KeepsAll(work.S, C8_Tol(call)) /\ C8_KeepsAll(res.work.S, C8_Tol(call)))
       => (out.c = res.out.c /\ (call.op = "wlinear_svd" => out.rank = res.out.rank))

\* C8 as amended: uniform weights give the c and the rank of the unweighted
\* solve when both solves keep every singular value
C8_FullRankAgreement ==
  C8_Case => C8_AgreeWhenFull(Apply(C8_Unweighted(call), FreshWork, CallerBuffers))

\* uniform weights other than 1, full rank, a fit that is not zero, and
\* balancing factors that differ from those of the unweighted solve
C8_Witness ==
  /\ C8_Case /\ call.w[1] # One
  /\ C8_KeepsAll(work.S, C8_Tol(call))
  /\ C8_KeepsAll(Apply(C8_Unweighted(call), FreshWork, CallerBuffers).work.S, C8_Tol(call))
  /\ work.D # Apply(C8_Unweighted(call), FreshWork, CallerBuffers).work.D
  /\ \A j \in 1..P : out.c[j] # Zero

\* ---------------------------------------------------------------------
\* C9. Whatever calls the workspace went through before, a solve returns
\* the status, and on success leaves the rank, c, cov and chisq and the
\* workspace buffers, that the same solve returns on a workspace that was
\* never used.
\* ---------------------------------------------------------------------
C9_SameOutputs(res) ==
  /\ status = res.status
  /\ Succeeded =>
       /\ out[call.cn] = res.out[call.cn]
       /\ out[call.covn] = res.out[call.covn]
       /\ out.chisq = res.out.chisq
       /\ call.op \in TolOps => out.rank = res.out.rank
       /\ work.A = res.work.A /\ work.Q = res.work.Q /\ work.QSI = res.work.QSI
       /\ work.S = res.work.S /\ work.D = res.work.D /\ work.xt = res.work.xt
       /\ call.op \in WeightedOps => work.t = res.work.t

\* C9: a solve on a used workspace returns what it returns on a fresh one
C9_WorkspaceCarriesNoState ==
  call.op \in UnweightedOps \cup WeightedOps
    => C9_SameOutputs(Apply(call, FreshWork, CallerBuffers))

\* a successful unweighted solve on a workspace a weighted solve has used
C9_Witness ==
  /\ ncalls = 2 /\ Succeeded /\ call.op \in UnweightedOps
  /\ work.t # VFill(N, Zero)
  /\ out.c # VFill(P, Zero)

\* ---------------------------------------------------------------------
\* C10. For x and c of equal length p and a p by p matrix cov, est stores
\* y = sum_i x_i c_i and y_err = sqrt(var) with
\* var = sum_i x_i^2 cov[i,i] + 2 sum_{i<j} x_i x_j cov[i,j], the entries of
\* cov above the diagonal; on a shape mismatch it fails and leaves y and
\* y_err as they were.
\* ---------------------------------------------------------------------
C10_EstShaped(a) ==
  Len(a.x) = Len(a.c) /\ Size1(a.cov) = Size2(a.cov) /\ Len(a.c) = Size1(a.cov)

C10_Diagonal(x, cov) == VSum([i \in 1..Len(x) |-> RMul(RMul(x[i], x[i]), cov[i][i])])

\* 2 sum_{i<j} x_i x_j cov[i,j]
C10_Above(x, cov) ==
  VSum([i \in 1..Len(x) |->
     SumTo([j \in 1..Len(x) |-> RMul(RMul(RMul(Rat(2), x[j]), x[i]), cov[j][i])], i - 1)])

\* 2 sum_{i>j} x_i x_j cov[i,j]
C10_Below(x, cov) ==
  VSum([i \in 1..Len(x) |->
     SumTo([j \in 1..Len(x) |-> RMul(RMul(RMul(Rat(2), x[i]), x[j]), cov[i][j])], i - 1)])

C10_Symmetric(cov) == \A i, j \in 1..Size1(cov) : cov[i][j] = cov[j][i]

C10_Failure ==
  (call.op = "est" /\ ~C10_EstShaped(call))
    => (Failed /\ out.y = CallerBuffers.y /\ out.y_err = CallerBuffers.y_err)

\* C10: est stores x.c and the square root of the variance summed over the
\* diagonal and the entries above it, and fails without writing y, y_err
C10_EstUpperTriangle ==
  /\ (call.op = "est" /\ C10_EstShaped(call)) =>
       /\ Succeeded
       /\ out.y = Dot(call.x, call.c)
       /\ out.y_err = RSqrt(RAdd(C10_Diagonal(call.x, call.cov),
                                 C10_Above(call.x, call.cov)))
  /\ C10_Failure

\* C10 as amended: the off-diagonal entries est reads are those with row
\* index larger than column index, cov[i,j] with i > j; for a symmetric
\* cov the variance is the quadratic form x^T cov x.
C10_EstLowerTriangle ==
  /\ (call.op = "est" /\ C10_EstShaped(call)) =>
       /\ Succeeded
       /\ out.y = Dot(call.x, call.c)
       /\ out.y_err = RSqrt(RAdd(C10_Diagonal(call.x, call.cov),
                                 C10_Below(call.x, call.cov)))
       /\ C10_Symmetric(call.cov) =>
            out.y_err = RSqrt(Dot(call.x, MatVec(call.cov, call.x)))
  /\ C10_Failure

\* an estimate over a cov whose two triangles differ, with x all nonzero
C10_Witness ==
  /\ call.op = "est" /\ Succeeded
  /\ ~C10_Symmetric(call.cov)
  /\ \A i \in 1..Len(call.x) : call.x[i] # Zero
  /\ out.y_err # RSqrt(RAdd(C10_Diagonal(call.x, call.cov), C10_Above(call.x, call.cov)))

\* ---------------------------------------------------------------------
\* C11. When no singular value exceeds tol * s_0 (tol >= 1, or s_0 = 0: a
\* zero X, or weights that are all <= 0), a successful solve reports rank 0
\* (where it reports the rank), leaves c all zero, and leaves in chisq the
\* sum of squares of y, weighted with the weights as passed in the weighted
\* solvers, with no contribution of the ridge penalty.
\* ---------------------------------------------------------------------

\* the tolerance the solve of a works with
C11_Tol(a) == IF a.op \in TolOps THEN a.tol ELSE GSL_DBL_EPSILON

C11_NoneExceeds ==
  \A j \in 1..P : RLe(work.S[j], RMul(C11_Tol(call), work.S[1]))

C11_Case ==
  /\ Succeeded /\ call.op \in UnweightedOps \cup WeightedOps
  /\ C11_NoneExceeds

\* sum_i y_i^2, or sum_i w_i y_i^2 in the weighted solvers
C11_SumSquares(a) ==
  VSum([i \in 1..Len(a.y) |->
     IF a.op \in WeightedOps THEN RMul(a.w[i], Square(a.y[i])) ELSE Square(a.y[i])])

\* C11: with no singular value above tol * s_0 the rank is 0, c is zero and
\* chisq is the (weighted) sum of squares of y
C11_RankZero ==
  C11_Case =>
    /\ call.op \in TolOps => out.rank = 0
    /\ out.c = VFill(P, Zero)
    /\ out.chisq = C11_SumSquares(call)

\* tol >= 1 on a design matrix of full rank, with a y that is not zero
C11_Witness ==
  /\ C11_Case /\ call.op \in TolOps /\ RLe(One, call.tol)
  /\ \A j \in 1..P : work.S[j] # Zero
  /\ out.rank = 0
  /\ out.chisq # Zero

====
